---- MODULE Spec2Model ----
(***************************************************************************)
(* Model of GCloudIoTMqtt (src/src/GCloudIoTMqtt.cpp, GCloudIoTMqtt.h):     *)
(* the MQTT session of a Google Cloud IoT device: connect with JWT          *)
(* regeneration, exponential backoff, the periodic loop(), and the          *)
(* dispatch of arrived messages to the registered callbacks.                *)
(*                                                                          *)
(* Time is in milliseconds, as millis() returns it.  All methods run on     *)
(* one thread, so each method call is one atomic action.  The MQTT client,  *)
(* the WiFi link, the clock and the device (JWT provider) are the           *)
(* environment: their answers are inputs drawn from small sets.             *)
(***************************************************************************)
EXTENDS Integers, Sequences, FiniteSets, TLC

VARIABLES
    mqttClient,            \* "NULL" or "obj": the owned MQTTClient*
    netClient,             \* "NULL" or "obj": the owned WiFiClientSecure*
    certList,              \* "NULL" or "obj": the owned X509List*
    host,                  \* host given to mqttClient->begin(): "NONE", "LTS", "STD"
    connected,             \* mqttClient->connected()
    autoReconnect,         \* field autoReconnect
    logConnect,            \* field logConnect
    useLts,                \* field useLts
    backoff_ms,            \* field backoff_ms (int)
    backoff_until_millis,  \* field backoff_until_millis (unsigned long)
    commandCB,             \* field commandCB: "NULL" or "fn"
    configCB,              \* field configCB
    messageCB,             \* field messageCB
    now,                   \* millis()
    expMillis,             \* device->getExpMillis()
    network,               \* WiFi.status() == WL_CONNECTED
    op,                    \* the method that ran last (observation)
    calls,                 \* the calls that method made, in order (observation)
    arrived,               \* the topic given to the last onMessageReceived
    jwtPassed,             \* the token the method that ran last gave to the
                           \* protocol connect, named by its expiry; -1 when
                           \* it made no protocol connect (observation)
    fails,                 \* failed connect() calls in a row since the last
                           \* successful one or setup(), counted up to MaxFails
    jitterFree             \* whether random() returned 0 in all of them

vars == <<mqttClient, netClient, certList, host, connected,
          autoReconnect, logConnect, useLts, backoff_ms, backoff_until_millis,
          commandCB, configCB, messageCB, now, expMillis, network,
          op, calls, arrived, jwtPassed, fails, jitterFree>>

(***************************************************************************)
(* Program constants.                                                       *)
(***************************************************************************)
EXP_BACKOFF_FACTOR == 2
EXP_BACKOFF_MIN_MS == 1000
EXP_BACKOFF_MAX_MS == 32000
EXP_BACKOFF_JITTER_MS == 500
JWT_MARGIN_MS == 60000

(***************************************************************************)
(* Bounds of the model.                                                     *)
(***************************************************************************)
MaxTime == 3000          \* the clock is not advanced past this value
JwtLifetime == 61000     \* validity of a token the device creates, ms
MaxConnectMs == 1500     \* longest time one protocol connect takes, ms
MaxTopicLen == 3         \* longest arrived topic, in characters
MaxFails == 7            \* the count of failures in a row stops here
ClockBits == 20          \* millis() wraps at 2^ClockBits (2^32 on the device)

(***************************************************************************)
(* Helpers.                                                                 *)
(***************************************************************************)
\* unsigned long arithmetic: the value wraps
ULong(x) == x % (2 ^ ClockBits)

InSeq(x, s) == \E i \in 1..Len(s) : s[i] = x

Count(x, s) == Cardinality({i \in 1..Len(s) : s[i] = x})

\* index of the first x in s, 0 when there is none
IndexOf(x, s) ==
    IF InSeq(x, s) THEN CHOOSE i \in 1..Len(s) : s[i] = x /\ \A k \in 1..(i-1) : s[k] # x
    ELSE 0

\* values random(EXP_BACKOFF_JITTER_MS) can return: the least and the greatest
JitterSamples == {0, EXP_BACKOFF_JITTER_MS - 1}

\* the times one protocol connect can take
ConnectTimes == {0, MaxConnectMs}

\* return codes of the protocol connect (lwmqtt_return_code_t), a sample
LWMQTT_CONNECTION_ACCEPTED == "LWMQTT_CONNECTION_ACCEPTED"
LWMQTT_SERVER_UNAVAILABLE == "LWMQTT_SERVER_UNAVAILABLE"
LWMQTT_BAD_USERNAME_OR_PASSWORD == "LWMQTT_BAD_USERNAME_OR_PASSWORD"
LWMQTT_NOT_AUTHORIZED == "LWMQTT_NOT_AUTHORIZED"

ReturnCodes == {LWMQTT_CONNECTION_ACCEPTED, LWMQTT_SERVER_UNAVAILABLE,
                LWMQTT_BAD_USERNAME_OR_PASSWORD, LWMQTT_NOT_AUTHORIZED}

(***************************************************************************)
(* The device (CloudIoTCoreDevice), consumed through its interface.         *)
(***************************************************************************)
\* device->createJWT() at time t: a new token valid for JwtLifetime, or,
\* when the device cannot create one, the prior token and expiry unchanged
createJWT(t, exp, ok) == IF ok THEN ULong(t + JwtLifetime) ELSE exp

\* topics as sequences of characters: "d" the device path, "c" commands,
\* "g" config, "s" anything else (a sub-folder, another topic)
TopicChars == {"d", "c", "g", "s"}
getCommandsTopic == <<"d", "c">>
getConfigTopic == <<"d", "g">>

(***************************************************************************)
(* connect(): the pure parts.                                               *)
(***************************************************************************)
\* faulty variant: the margin test made inclusive
JwtExpiringInclusive(t, exp) == ULong(t + JWT_MARGIN_MS) >= exp

\* (millis() + 60000) > device->getExpMillis()
JwtExpiring(t, exp) == ULong(t + JWT_MARGIN_MS) > exp

\* faulty variant: the case LWMQTT_BAD_USERNAME_OR_PASSWORD left out of the switch
IsAuthFailureOneCase(rc) == rc = LWMQTT_NOT_AUTHORIZED

\* the switch on mqttClient->returnCode()
IsAuthFailure(rc) == rc \in {LWMQTT_BAD_USERNAME_OR_PASSWORD, LWMQTT_NOT_AUTHORIZED}

\* faulty variant: the second test made inclusive, so that 32000 is doubled once more
NextBackoffInclusive(b, j) ==
    IF b < EXP_BACKOFF_MIN_MS THEN EXP_BACKOFF_MIN_MS + j
    ELSE IF b <= EXP_BACKOFF_MAX_MS THEN b * EXP_BACKOFF_FACTOR + j
    ELSE b

\* the exponential backoff update, j the value random() returned
NextBackoff(b, j) ==
    IF b < EXP_BACKOFF_MIN_MS THEN EXP_BACKOFF_MIN_MS + j
    ELSE IF b < EXP_BACKOFF_MAX_MS THEN b * EXP_BACKOFF_FACTOR + j
    ELSE b

\* faulty variant: the comparison turned round
BackoffElapsedReversed(t, until) == t < until

\* millis() > this->backoff_until_millis
BackoffElapsed(t, until) == t > until

\* faulty variant: the link is taken to be up
isNetworkConnectedAlways == TRUE

\* WiFi.status() == WL_CONNECTED
isNetworkConnected == network

\* the calls onConnect() makes
onConnect(log) ==
    IF log THEN <<"publishState", "publishTelemetry">> ELSE <<>>

\* the inputs of one connect() call: what the environment answers
\*   ok1    whether createJWT() at entry produces a new token
\*   result what mqttClient->connect() returns
\*   live   what the following mqttClient->connected() returns
\*   rc     what mqttClient->returnCode() returns after the call
\*   ok2    whether createJWT() after an auth failure produces a new token
\*   j      what random(EXP_BACKOFF_JITTER_MS) returns
\*   d      the time the protocol connect took
\* J and D are the values j and d are drawn from.  An answer the call never
\* asks for is fixed (TRUE, 0), so that each outcome is enumerated once.  The
\* protocol connect succeeds only with the link up and the return code
\* LWMQTT_CONNECTION_ACCEPTED, and fails with another.
ConnectInputs(J, D) ==
    { inp \in [ok1 : BOOLEAN, result : BOOLEAN, live : BOOLEAN, rc : ReturnCodes,
               ok2 : BOOLEAN, j : J \cup {0}, d : D] :
        /\ inp.result <=> (inp.rc = LWMQTT_CONNECTION_ACCEPTED)
        /\ inp.result => network
        /\ inp.live => inp.result
        /\ ~JwtExpiring(now, expMillis) => inp.ok1
        /\ ~IsAuthFailure(inp.rc) => inp.ok2
        /\ (inp.result /\ inp.live) => inp.j = 0
        /\ (inp.d = 0 \/ now + inp.d <= MaxTime) }

\* faulty variant: the connected() check left out
ConnectSucceedsNoCheck(inp) == inp.result

\* result && this->mqttClient->connected()
ConnectSucceeds(inp) == inp.result /\ inp.live

\* the calls one connect() makes, in order
ConnectCalls(inp) ==
    <<"connect">>
    \o (IF JwtExpiring(now, expMillis) THEN <<"createJWT">> ELSE <<>>)
    \o <<"mqtt.connect", inp.rc>>
    \o (IF ConnectSucceeds(inp)
        THEN <<"subscribe.config.1", "subscribe.commands.0">> \o onConnect(logConnect)
        ELSE (IF IsAuthFailure(inp.rc) THEN <<"createJWT">> ELSE <<>>)
             \o <<"set.backoff_until_millis">>)

\* faulty variant: the argument is stored
AutoReconnectAsked(auto_reconnect) == auto_reconnect

\* this->autoReconnect = true: the argument auto_reconnect is not read
AutoReconnectSet(auto_reconnect) == TRUE

\* faulty variant: the token is read before createJWT() replaces it
TokenPassedStale(atEntry, afterRegen) == atEntry

\* device->getJWT() in the argument list of mqttClient->connect(): the token
\* the device holds once the createJWT() at entry has returned
TokenPassed(atEntry, afterRegen) == afterRegen

\* the state connect() leaves
ConnectState(auto_reconnect, inp) ==
    LET t1 == ULong(now + inp.d)
        exp1 == IF JwtExpiring(now, expMillis)
                THEN createJWT(now, expMillis, inp.ok1) ELSE expMillis
        b == NextBackoff(backoff_ms, inp.j)
    IN /\ autoReconnect' = AutoReconnectSet(auto_reconnect)
       /\ now' = t1
       /\ jwtPassed' = TokenPassed(expMillis, exp1)
       /\ connected' = (inp.result /\ inp.live)
       /\ IF ConnectSucceeds(inp)
          THEN /\ backoff_ms' = 0
               /\ expMillis' = exp1
               /\ UNCHANGED backoff_until_millis
               /\ fails' = 0 /\ jitterFree' = TRUE
          ELSE /\ expMillis' = IF IsAuthFailure(inp.rc)
                               THEN createJWT(t1, exp1, inp.ok2) ELSE exp1
               /\ backoff_ms' = b
               /\ backoff_until_millis' = ULong(t1 + b)
               /\ fails' = IF fails < MaxFails THEN fails + 1 ELSE fails
               /\ jitterFree' = (jitterFree /\ inp.j = 0)

(***************************************************************************)
(* The state after construction (the member initialisers of the header).    *)
(***************************************************************************)
Init ==
    /\ mqttClient = "NULL" /\ netClient = "NULL" /\ certList = "NULL"
    /\ host = "NONE"
    /\ connected = FALSE
    /\ autoReconnect = FALSE
    /\ logConnect = TRUE
    /\ useLts = TRUE
    /\ backoff_ms = 0
    /\ backoff_until_millis = 0
    /\ commandCB = "NULL" /\ configCB = "NULL" /\ messageCB = "NULL"
    /\ now = 0
    /\ expMillis = 0
    /\ network \in BOOLEAN
    /\ op = "new"
    /\ calls = <<>>
    /\ arrived = <<>>
    /\ jwtPassed = -1
    /\ fails = 0 /\ jitterFree = TRUE

(***************************************************************************)
(* Dispatch of an arrived message.                                          *)
(***************************************************************************)
\* strncmp(a, b, n) == 0, comparing from character i on
RECURSIVE strncmpEq(_, _, _, _)
strncmpEq(a, b, n, i) ==
    IF i > n THEN TRUE
    ELSE IF a[i] # b[i] THEN FALSE
    ELSE strncmpEq(a, b, n, i + 1)

\* String::startsWith: whether s starts with s2
startsWith(s, s2) ==
    IF Len(s) < Len(s2) THEN FALSE
    ELSE strncmpEq(s, s2, Len(s2), 1)

\* faulty variant: the test turned round
MatchesCommandsReversed(topic) == startsWith(topic, getCommandsTopic)

\* the first test of onMessageReceived
MatchesCommands(topic) == startsWith(getCommandsTopic, topic)

\* the second test of onMessageReceived
MatchesConfig(topic) == startsWith(getConfigTopic, topic)

\* faulty variant: a matched topic without its handler falls through to the
\* generic handler
DispatchFallThrough(topic) ==
    IF MatchesCommands(topic) /\ commandCB # "NULL" THEN <<"commandCB">>
    ELSE IF MatchesConfig(topic) /\ configCB # "NULL" THEN <<"configCB">>
    ELSE IF messageCB # "NULL" THEN <<"messageCB">>
    ELSE <<>>

\* the handlers onMessageReceived invokes for topic, in order
Dispatch(topic) ==
    IF MatchesCommands(topic)
    THEN (IF commandCB # "NULL" THEN <<"commandCB">> ELSE <<>>)
    ELSE IF MatchesConfig(topic)
    THEN (IF configCB # "NULL" THEN <<"configCB">> ELSE <<>>)
    ELSE IF messageCB # "NULL" THEN <<"messageCB">>
    ELSE <<>>

\* the topics a message can arrive with
RECURSIVE SeqsOfLen(_)
SeqsOfLen(n) ==
    IF n = 0 THEN {<<>>}
    ELSE {Append(s, c) : s \in SeqsOfLen(n - 1), c \in TopicChars}

Topics == UNION {SeqsOfLen(n) : n \in 1..MaxTopicLen}

(***************************************************************************)
(* The methods.  A method that dereferences mqttClient is only called       *)
(* after setup(): before it the pointer is NULL.                            *)
(***************************************************************************)
history == <<fails, jitterFree>>
session == <<connected, autoReconnect, backoff_ms,
             backoff_until_millis, now, expMillis, history>>
owned == <<mqttClient, netClient, certList, host>>
callbacks == <<commandCB, configCB, messageCB>>

setup ==
    /\ netClient' = "obj"
    /\ certList' = "obj"
    /\ mqttClient' = "obj"
    /\ connected' = FALSE
    /\ backoff_until_millis' = 0
    /\ backoff_ms' = 0
    /\ useLts' = TRUE
    /\ host' = IF useLts' THEN "LTS" ELSE "STD"
    /\ op' = "setup" /\ calls' = <<>> /\ arrived' = <<>> /\ jwtPassed' = -1
    /\ fails' = 0 /\ jitterFree' = TRUE
    /\ UNCHANGED <<autoReconnect, logConnect, callbacks, now, expMillis, network>>

\* faulty variant: mqttClient is deleted and not set to NULL
cleanupKeepPointer ==
    /\ UNCHANGED mqttClient
    /\ netClient' = "NULL"
    /\ certList' = "NULL"
    /\ connected' = FALSE
    /\ op' = "cleanup"
    /\ calls' = (IF mqttClient # "NULL" THEN <<"mqtt.disconnect", "delete.mqttClient">> ELSE <<>>)
                \o (IF netClient # "NULL" THEN <<"delete.netClient">> ELSE <<>>)
                \o (IF certList # "NULL" THEN <<"delete.certList">> ELSE <<>>)
    /\ arrived' = <<>> /\ jwtPassed' = -1
    /\ UNCHANGED <<host, autoReconnect, logConnect, useLts, backoff_ms,
                   backoff_until_millis, callbacks, now, expMillis, network, history>>

cleanup ==
    /\ mqttClient' = "NULL"
    /\ netClient' = "NULL"
    /\ certList' = "NULL"
    /\ connected' = FALSE
    /\ op' = "cleanup"
    /\ calls' = (IF mqttClient # "NULL" THEN <<"mqtt.disconnect", "delete.mqttClient">> ELSE <<>>)
                \o (IF netClient # "NULL" THEN <<"delete.netClient">> ELSE <<>>)
                \o (IF certList # "NULL" THEN <<"delete.certList">> ELSE <<>>)
    /\ arrived' = <<>> /\ jwtPassed' = -1
    /\ UNCHANGED <<host, autoReconnect, logConnect, useLts, backoff_ms,
                   backoff_until_millis, callbacks, now, expMillis, network, history>>

connect(auto_reconnect, skip, inp) ==
    /\ mqttClient # "NULL"
    /\ ConnectState(auto_reconnect, inp)
    /\ op' = "connect" /\ arrived' = <<>>
    /\ calls' = (IF auto_reconnect THEN <<>> ELSE <<"auto_reconnect=false">>)
                \o ConnectCalls(inp)
    /\ UNCHANGED <<owned, logConnect, useLts, callbacks, network>>

\* faulty variant: autoReconnect left as it is
disconnectKeepAuto ==
    /\ mqttClient # "NULL"
    /\ connected' = FALSE
    /\ op' = "disconnect" /\ calls' = <<"mqtt.disconnect">> /\ arrived' = <<>>
    /\ jwtPassed' = -1
    /\ UNCHANGED <<owned, autoReconnect, logConnect, useLts, backoff_ms,
                   backoff_until_millis, callbacks, now, expMillis, network, history>>

disconnect ==
    /\ mqttClient # "NULL"
    /\ autoReconnect' = FALSE
    /\ connected' = FALSE
    /\ op' = "disconnect" /\ calls' = <<"mqtt.disconnect">> /\ arrived' = <<>>
    /\ jwtPassed' = -1
    /\ UNCHANGED <<owned, logConnect, useLts, backoff_ms,
                   backoff_until_millis, callbacks, now, expMillis, network, history>>

loop(J, D) ==
    /\ mqttClient # "NULL"
    /\ op' = "loop" /\ arrived' = <<>>
    /\ \/ /\ connected /\ JwtExpiring(now, expMillis)
          /\ \E inp \in ConnectInputs(J, D) :
                /\ ConnectState(autoReconnect, inp)
                /\ calls' = <<"mqtt.disconnect">> \o ConnectCalls(inp) \o <<"mqtt.loop">>
       \/ /\ ~(connected /\ JwtExpiring(now, expMillis))
          /\ autoReconnect /\ ~connected /\ BackoffElapsed(now, backoff_until_millis)
          /\ isNetworkConnected
          /\ \E inp \in ConnectInputs(J, D) :
                /\ ConnectState(TRUE, inp)
                /\ calls' = ConnectCalls(inp) \o <<"mqtt.loop">>
       \/ /\ ~(connected /\ JwtExpiring(now, expMillis))
          /\ ~(autoReconnect /\ ~connected /\ BackoffElapsed(now, backoff_until_millis)
                /\ isNetworkConnected)
          /\ calls' = <<"mqtt.loop">>
          /\ jwtPassed' = -1
          /\ UNCHANGED session
    /\ UNCHANGED <<owned, logConnect, useLts, callbacks, network>>

onMessageReceived(topic) ==
    /\ op' = "onMessageReceived"
    /\ calls' = Dispatch(topic)
    /\ arrived' = topic /\ jwtPassed' = -1
    /\ UNCHANGED <<owned, session, logConnect, useLts, callbacks, network>>

\* publishTelemetry(...): every overload publishes on the events topic
publishTelemetry ==
    /\ mqttClient # "NULL"
    /\ op' = "publishTelemetry" /\ calls' = <<"mqtt.publish.events">>
    /\ arrived' = <<>> /\ jwtPassed' = -1
    /\ UNCHANGED <<owned, session, logConnect, useLts, callbacks, network>>

\* publishState(...): both overloads publish on the state topic
publishState ==
    /\ mqttClient # "NULL"
    /\ op' = "publishState" /\ calls' = <<"mqtt.publish.state">>
    /\ arrived' = <<>> /\ jwtPassed' = -1
    /\ UNCHANGED <<owned, session, logConnect, useLts, callbacks, network>>

setLogConnect(enabled) ==
    /\ logConnect' = enabled
    /\ op' = "setLogConnect" /\ calls' = <<>> /\ arrived' = <<>> /\ jwtPassed' = -1
    /\ UNCHANGED <<owned, session, useLts, callbacks, network>>

setUseLts(enabled) ==
    /\ useLts' = enabled
    /\ op' = "setUseLts" /\ calls' = <<>> /\ arrived' = <<>> /\ jwtPassed' = -1
    /\ UNCHANGED <<owned, session, logConnect, callbacks, network>>

\* faulty variant: the other two handlers are cleared
setCommandCallbackOnly(cb) ==
    /\ commandCB' = cb
    /\ configCB' = "NULL" /\ messageCB' = "NULL"
    /\ op' = "setCommandCallback" /\ calls' = <<>> /\ arrived' = <<>> /\ jwtPassed' = -1
    /\ UNCHANGED <<owned, session, logConnect, useLts, network>>

setCommandCallback(cb) ==
    /\ commandCB' = cb
    /\ op' = "setCommandCallback" /\ calls' = <<>> /\ arrived' = <<>> /\ jwtPassed' = -1
    /\ UNCHANGED <<owned, session, logConnect, useLts, configCB, messageCB, network>>

setConfigCallback(cb) ==
    /\ configCB' = cb
    /\ op' = "setConfigCallback" /\ calls' = <<>> /\ arrived' = <<>> /\ jwtPassed' = -1
    /\ UNCHANGED <<owned, session, logConnect, useLts, commandCB, messageCB, network>>

setMessageCallback(cb) ==
    /\ messageCB' = cb
    /\ op' = "setMessageCallback" /\ calls' = <<>> /\ arrived' = <<>> /\ jwtPassed' = -1
    /\ UNCHANGED <<owned, session, logConnect, useLts, commandCB, configCB, network>>

(***************************************************************************)
(* The environment.                                                         *)
(***************************************************************************)
\* the instants the clock is advanced to: the ends of the backoff window and
\* of the token's refresh margin, and the instants right after them
ClockTargets ==
    {t \in {backoff_until_millis, backoff_until_millis + 1,
            expMillis - JWT_MARGIN_MS, expMillis - JWT_MARGIN_MS + 1} :
        t > now /\ t <= MaxTime}

\* millis() advances
AdvanceClock ==
    /\ \E t \in ClockTargets : now' = t
    /\ op' = "env" /\ calls' = <<>> /\ arrived' = <<>> /\ jwtPassed' = -1
    /\ UNCHANGED <<owned, connected, autoReconnect, logConnect, useLts,
                   backoff_ms, backoff_until_millis, callbacks, expMillis, network, history>>

\* whether t is within MaxTime of the wrap of millis(), before or after it
NearWrap(t) == ULong(t + MaxTime) <= 2 * MaxTime

\* the instants around the wrap of millis(): one shortest backoff before it,
\* the last instant before it, the wrap itself, and the ends of the backoff
\* window when they are near the wrap
WrapTargets ==
    {t \in {ULong(x) : x \in {2 ^ ClockBits - EXP_BACKOFF_MIN_MS, 2 ^ ClockBits - 1,
                               2 ^ ClockBits, backoff_until_millis,
                               backoff_until_millis + 1}} :
        t # now /\ NearWrap(t)}

\* millis() advances and wraps
AdvanceClockWrap ==
    /\ \E t \in WrapTargets : now' = t
    /\ op' = "env" /\ calls' = <<>> /\ arrived' = <<>> /\ jwtPassed' = -1
    /\ UNCHANGED <<owned, connected, autoReconnect, logConnect, useLts,
                   backoff_ms, backoff_until_millis, callbacks, expMillis, network, history>>

\* the WiFi link goes up or down
WiFiChange ==
    /\ network' = ~network
    /\ op' = "env" /\ calls' = <<>> /\ arrived' = <<>> /\ jwtPassed' = -1
    /\ UNCHANGED <<owned, session, logConnect, useLts, callbacks>>

\* the broker or the network drops the connection
ConnectionLost ==
    /\ connected
    /\ connected' = FALSE
    /\ op' = "env" /\ calls' = <<>> /\ arrived' = <<>> /\ jwtPassed' = -1
    /\ UNCHANGED <<owned, autoReconnect, logConnect, useLts, backoff_ms,
                   backoff_until_millis, callbacks, now, expMillis, network, history>>

\* the application calls connect(); random() returns 0
CallConnect ==
    \E ar \in BOOLEAN, inp \in ConnectInputs({0}, ConnectTimes) : connect(ar, FALSE, inp)

\* the application calls loop(); random() returns 0
CallLoop == loop({0}, ConnectTimes)

\* the application calls connect(); random() returns any sample, and the
\* protocol connect takes no time
CallConnectJitter ==
    \E ar \in BOOLEAN, inp \in ConnectInputs(JitterSamples, {0}) : connect(ar, FALSE, inp)

\* the application calls connect() or loop(); random() returns 0 and the
\* protocol connect takes no time
CallConnectInstant ==
    \E ar \in BOOLEAN, inp \in ConnectInputs({0}, {0}) : connect(ar, FALSE, inp)

CallLoopInstant == loop({0}, {0})

\* a message arrives on the commands topic, the config topic or another one
CallOnKnownTopic ==
    \E topic \in {getCommandsTopic, getConfigTopic, <<"s">>} : onMessageReceived(topic)

CallOnMessageReceived == \E topic \in Topics : onMessageReceived(topic)
CallSetLogConnect == \E b \in BOOLEAN : setLogConnect(b)
CallSetUseLts == \E b \in BOOLEAN : setUseLts(b)
CallSetCommandCallback == \E cb \in {"NULL", "fn"} : setCommandCallback(cb)
CallSetConfigCallback == \E cb \in {"NULL", "fn"} : setConfigCallback(cb)
CallSetMessageCallback == \E cb \in {"NULL", "fn"} : setMessageCallback(cb)

\* the connection life cycle
Next ==
    \/ setup
    \/ cleanup
    \/ CallConnect
    \/ disconnect
    \/ CallLoop
    \/ CallSetLogConnect
    \/ AdvanceClock
    \/ WiFiChange
    \/ ConnectionLost

Spec == Init /\ [][Next]_vars

\* the dispatch of arrived messages under every registration of handlers
NextDispatch ==
    \/ CallSetCommandCallback
    \/ CallSetConfigCallback
    \/ CallSetMessageCallback
    \/ CallOnMessageReceived

SpecDispatch == Init /\ [][NextDispatch]_vars

\* the backoff arithmetic under jitter: connect() calls at one instant
NextJitter ==
    \/ setup
    \/ CallConnectJitter
    \/ CallSetLogConnect

SpecJitter == Init /\ [][NextJitter]_vars

\* every method of the class, at one instant
NextApi ==
    \/ setup
    \/ cleanup
    \/ CallConnectInstant
    \/ disconnect
    \/ CallLoopInstant
    \/ publishTelemetry
    \/ publishState
    \/ CallOnKnownTopic
    \/ CallSetLogConnect
    \/ CallSetUseLts
    \/ CallSetCommandCallback
    \/ CallSetConfigCallback
    \/ CallSetMessageCallback

SpecApi == Init /\ [][NextApi]_vars

\* the session with a clock that wraps
NextWrap ==
    \/ setup
    \/ CallConnectInstant
    \/ CallLoopInstant
    \/ AdvanceClockWrap

SpecWrap == Init /\ [][NextWrap]_vars

\* the session with protocol connects that take no time: two method calls
\* with no step of the clock between them are made in the same millisecond
NextInstant ==
    \/ setup
    \/ CallConnectInstant
    \/ CallLoopInstant
    \/ AdvanceClock
    \/ ConnectionLost

SpecInstant == Init /\ [][NextInstant]_vars

\* once the link is up the broker accepts every connect attempt
BrokerAccepts == (network /\ InSeq("connect", calls')) => connected'

\* a backoff window ends before the clock stops
WindowEnds ==
    InSeq("set.backoff_until_millis", calls') => backoff_until_millis' < MaxTime

CallConnectLive == CallConnectInstant /\ BrokerAccepts /\ WindowEnds

CallLoopLive == CallLoopInstant /\ BrokerAccepts /\ WindowEnds

\* the link comes up, and stays up
LinkComesUp == ~network /\ WiFiChange

\* the session from the failures of a link that is down to the recovery:
\* the application never calls disconnect() or cleanup(), the sketch calls
\* loop() again and again, and the clock advances
NextLive ==
    \/ setup
    \/ CallConnectLive
    \/ CallLoopLive
    \/ AdvanceClock
    \/ ConnectionLost
    \/ LinkComesUp

SpecLive ==
    Init /\ [][NextLive]_vars /\ WF_vars(CallLoopLive) /\ WF_vars(AdvanceClock)

(***************************************************************************)
(* Properties.  A step of loop() is a step to a state with op = "loop";     *)
(* the unprimed variables are then the state loop() found.  The calls of a  *)
(* method are read in the state it leaves.                                  *)
(***************************************************************************)
\* whether the method that ran last entered connect()
RanConnect == op \in {"connect", "loop"} /\ InSeq("connect", calls)

\* whether s starts with p, by comparing the first Len(p) characters
IsPrefixOf(p, s) == Len(p) <= Len(s) /\ SubSeq(s, 1, Len(p)) = p

\* C1: a loop() that finds the session disconnected, autoReconnect true and
\* now < backoff_until_millis does not call connect().
C1_NoPrematureReconnect ==
    [][(op' = "loop" /\ ~connected /\ autoReconnect /\ now < backoff_until_millis)
        => ~InSeq("connect", calls')]_vars

\* C1 witness: loop() ran inside the backoff window, with the link up, and
\* only pumped the client.
C1_Witness ==
    /\ op = "loop" /\ ~connected /\ autoReconnect /\ isNetworkConnected
    /\ backoff_ms >= 1000 /\ now < backoff_until_millis
    /\ calls = <<"mqtt.loop">>

\* C2: backoff_ms never exceeds EXP_BACKOFF_MAX_MS (32000), whatever
\* random() returns and however many connect() calls fail in a row.
C2_BackoffCapped == backoff_ms <= 32000

\* the backoff after k failures in a row without jitter: 1000, doubled each
\* time until it reaches 32000
RECURSIVE DoubledBackoff(_)
DoubledBackoff(k) ==
    IF k = 1 THEN 1000
    ELSE IF 2 * DoubledBackoff(k - 1) <= 32000 THEN 2 * DoubledBackoff(k - 1)
    ELSE DoubledBackoff(k - 1)

\* C3: after k >= 1 failed connect() calls in a row in which random()
\* returned 0, backoff_ms is 1000 doubled k - 1 times, but not beyond 32000;
\* a connect() that returns true leaves backoff_ms = 0; the first failure
\* after it (or after setup()) leaves a value in [1000, 1500).
C3_BackoffGrowthAndReset ==
    /\ (fails >= 1 /\ jitterFree) => backoff_ms = DoubledBackoff(fails)
    /\ (RanConnect /\ connected) => (backoff_ms = 0 /\ fails = 0)
    /\ fails = 0 => backoff_ms = 0
    /\ fails = 1 => (backoff_ms >= 1000 /\ backoff_ms < 1500)

\* C3 witness: MaxFails failures in a row without jitter; the backoff reached
\* 32000 at the sixth and stayed there.
C3_Witness ==
    /\ op = "connect" /\ fails = MaxFails /\ MaxFails > 6 /\ jitterFree
    /\ backoff_ms = 32000

\* the calls a refreshing loop() starts with
StartsWithRefresh(cs) ==
    Len(cs) >= 2 /\ cs[1] = "mqtt.disconnect" /\ cs[2] = "connect"

\* C4 as stated: a loop() that finds the session connected and
\* now + 60000 >= getExpMillis() first disconnects the client and calls
\* connect().
C4_RefreshAtOrPastMargin ==
    [][(op' = "loop" /\ connected /\ now + 60000 >= expMillis)
        => StartsWithRefresh(calls')]_vars

\* C4 amended: a loop() that finds the session connected first disconnects
\* the client and calls connect() when now + 60000 > getExpMillis(), and
\* makes neither call when now + 60000 <= getExpMillis().
C4_RefreshPastMargin ==
    [][(op' = "loop" /\ connected)
        => IF now + 60000 > expMillis
           THEN StartsWithRefresh(calls')
           ELSE calls' = <<"mqtt.loop">>]_vars

\* C4 witness: loop() ran one millisecond past the margin and refreshed, with
\* a token that had been created before.
C4_Witness ==
    /\ op = "loop" /\ StartsWithRefresh(calls)
    /\ expMillis > JwtLifetime /\ connected

\* whether the protocol connect of the last method failed on authentication
AuthFailed ==
    RanConnect /\ (InSeq("LWMQTT_NOT_AUTHORIZED", calls)
                   \/ InSeq("LWMQTT_BAD_USERNAME_OR_PASSWORD", calls))

\* the calls made after the protocol connect
AfterProtocolConnect(cs) == SubSeq(cs, IndexOf("mqtt.connect", cs) + 1, Len(cs))

\* the calls made up to the protocol connect
UpToProtocolConnect(cs) == SubSeq(cs, 1, IndexOf("mqtt.connect", cs))

\* whether the backoff window is armed: set from the clock and backoff_ms
BackoffArmed == backoff_ms >= 1000 /\ backoff_until_millis = now + backoff_ms

\* C5 as stated: a connect() whose protocol connect fails on authentication
\* calls createJWT() exactly once, before backoff_until_millis is set, and
\* arms the backoff window.
C5_OneRegenerationInAll ==
    AuthFailed =>
        /\ Count("createJWT", calls) = 1
        /\ IndexOf("createJWT", calls) < IndexOf("set.backoff_until_millis", calls)
        /\ BackoffArmed

\* C5 amended: such a connect() calls createJWT() exactly once after the
\* protocol connect and before backoff_until_millis is set, and arms the
\* backoff window; before the protocol connect it calls createJWT() at most
\* once more (when the token was expiring at entry).
C5_OneRegenerationAfterFailure ==
    AuthFailed =>
        /\ Count("createJWT", AfterProtocolConnect(calls)) = 1
        /\ IndexOf("createJWT", AfterProtocolConnect(calls))
             < IndexOf("set.backoff_until_millis", AfterProtocolConnect(calls))
        /\ Count("set.backoff_until_millis", calls) = 1
        /\ Count("createJWT", UpToProtocolConnect(calls)) <= 1
        /\ BackoffArmed

\* C5 witness: an authentication failure with the bad-password return code,
\* on a token that was expiring at entry: two createJWT() calls.
C5_Witness ==
    /\ op = "connect" /\ InSeq("LWMQTT_BAD_USERNAME_OR_PASSWORD", calls)
    /\ Count("createJWT", calls) = 2
    /\ BackoffArmed

\* the subscriptions among the calls
Subscriptions(cs) ==
    SelectSeq(cs, LAMBDA c : c \in {"subscribe.config.1", "subscribe.commands.0"})

\* the publishes among the calls
Publishes(cs) ==
    SelectSeq(cs, LAMBDA c : c \in {"publishState", "publishTelemetry"})

\* C6: a connect() whose protocol connect returned true and left the client
\* connected subscribes to the config topic at QoS 1, then to the commands
\* topic at QoS 0, and publishes one state and one telemetry message if
\* logConnect is true and nothing if it is false; any other connect()
\* subscribes to nothing and publishes nothing.
C6_ConnectSideEffects ==
    RanConnect =>
        IF connected
        THEN /\ Subscriptions(calls) = <<"subscribe.config.1", "subscribe.commands.0">>
             /\ Publishes(calls) = IF logConnect
                                   THEN <<"publishState", "publishTelemetry">>
                                   ELSE <<>>
        ELSE /\ Subscriptions(calls) = <<>>
             /\ Publishes(calls) = <<>>

\* C6 witness: the protocol connect returned true, but the client was not
\* connected afterwards: nothing subscribed, the backoff armed.
C6_Witness ==
    /\ op = "connect" /\ InSeq("LWMQTT_CONNECTION_ACCEPTED", calls) /\ ~connected
    /\ logConnect /\ InSeq("set.backoff_until_millis", calls)

\* C7: disconnect() leaves autoReconnect false, and while autoReconnect is
\* false every step other than the application's connect() leaves it false
\* and calls no connect(): loop() does not reconnect.
C7_DisconnectStopsReconnect ==
    [][/\ op' = "disconnect" => (~autoReconnect' /\ ~connected')
       /\ (~autoReconnect /\ op' # "connect")
            => (~autoReconnect' /\ ~InSeq("connect", calls'))]_vars

\* C7 witness: loop() ran after a disconnect() that followed a failed
\* connect(), with the link up and the backoff window over, and only pumped
\* the client.
C7_Witness ==
    /\ op = "loop" /\ ~autoReconnect /\ ~connected /\ isNetworkConnected
    /\ backoff_ms >= 1000 /\ now > backoff_until_millis
    /\ calls = <<"mqtt.loop">>

\* C8: a loop() that finds the session disconnected and the link down calls
\* no connect() and leaves backoff_ms and backoff_until_millis as they are;
\* a loop() that finds the session disconnected, autoReconnect true, the
\* backoff window over (now > backoff_until_millis) and the link up calls
\* connect().
C8_NetworkGating ==
    [][/\ (op' = "loop" /\ ~connected /\ ~network)
            => /\ ~InSeq("connect", calls')
               /\ backoff_ms' = backoff_ms
               /\ backoff_until_millis' = backoff_until_millis
       /\ (op' = "loop" /\ ~connected /\ network /\ autoReconnect
             /\ now > backoff_until_millis)
            => InSeq("connect", calls')]_vars

\* C8 witness: loop() ran with the link down after the backoff window was
\* over, and only pumped the client.
C8_Witness ==
    /\ op = "loop" /\ ~connected /\ ~network /\ autoReconnect
    /\ backoff_ms >= 1000 /\ now > backoff_until_millis
    /\ calls = <<"mqtt.loop">>

\* C9: an arrived topic that starts with the commands topic reaches the
\* registered command handler, and one that starts with the config topic
\* reaches the registered config handler.
C9_RoutesTopicsUnderKnownTopic ==
    op = "onMessageReceived" =>
        /\ (IsPrefixOf(getCommandsTopic, arrived) /\ commandCB # "NULL")
             => InSeq("commandCB", calls)
        /\ (IsPrefixOf(getConfigTopic, arrived) /\ configCB # "NULL")
             => InSeq("configCB", calls)

\* C10: onMessageReceived invokes at most one handler, once; the command
\* handler only when the commands topic starts with the arrived topic, the
\* config handler only when the config topic does and the commands topic
\* does not; a topic that neither known topic starts with reaches the
\* registered generic handler; with no handler registered nothing is invoked.
C10_DispatchSelectsOne ==
    op = "onMessageReceived" =>
        /\ Len(calls) <= 1
        /\ InSeq("commandCB", calls)
             <=> (IsPrefixOf(arrived, getCommandsTopic) /\ commandCB # "NULL")
        /\ InSeq("configCB", calls)
             => (IsPrefixOf(arrived, getConfigTopic)
                 /\ ~IsPrefixOf(arrived, getCommandsTopic) /\ configCB # "NULL")
        /\ (~IsPrefixOf(arrived, getCommandsTopic) /\ ~IsPrefixOf(arrived, getConfigTopic)
             /\ messageCB # "NULL")
             => calls = <<"messageCB">>
        /\ (commandCB = "NULL" /\ configCB = "NULL" /\ messageCB = "NULL")
             => calls = <<>>

\* C10 witness: the arrived topic is a shorter prefix of both known topics
\* and all handlers are registered: the command handler alone is invoked.
C10_Witness ==
    /\ op = "onMessageReceived" /\ arrived = <<"d">>
    /\ commandCB # "NULL" /\ configCB # "NULL" /\ messageCB # "NULL"
    /\ calls = <<"commandCB">>

\* C11: a connect() that finds now + 60000 > getExpMillis() calls createJWT()
\* before the protocol connect; the token given to the protocol connect is the
\* one the device holds when the connect is issued: the token held at entry
\* when createJWT() was not called or left it unchanged, else the new one; it
\* is never older than the token held at entry, and it is the token the
\* device holds afterwards unless an authentication failure replaced it.
C11_TokenFreshAtConnect ==
    [][RanConnect' =>
        /\ (now + JWT_MARGIN_MS > expMillis)
             => InSeq("createJWT", UpToProtocolConnect(calls'))
        /\ jwtPassed' \in {expMillis, now + JwtLifetime}
        /\ ~(now + JWT_MARGIN_MS > expMillis) => jwtPassed' = expMillis
        /\ jwtPassed' >= expMillis
        /\ ~AuthFailed' => jwtPassed' = expMillis'
        /\ (AuthFailed' /\ expMillis' = expMillis) => jwtPassed' = expMillis]_vars

\* C11 witness: a connect() found a token created earlier within its margin,
\* replaced it, and gave the new one to the protocol connect.
C11_Witness ==
    /\ RanConnect /\ InSeq("createJWT", UpToProtocolConnect(calls))
    /\ jwtPassed = expMillis /\ jwtPassed > JwtLifetime /\ ~AuthFailed

\* C12: a connect attempt targets the host useLts selects: the LTS host when
\* useLts is true, the other host when setUseLts(false) was called.
C12_HostFollowsUseLts ==
    RanConnect => host = (IF useLts THEN "LTS" ELSE "STD")

\* C13: with a clock that wraps, a loop() called before the backoff of the
\* failed connect() has elapsed makes no connect attempt.  Stated for the
\* loop() that runs right after the failed connect(), when no time at all has
\* elapsed since the window was set.
C13_WindowHoldsAcrossWrap ==
    [][(InSeq("set.backoff_until_millis", calls) /\ op' = "loop")
        => ~InSeq("connect", calls')]_vars

\* C14: loop() does not issue a protocol connect on two invocations in a row
\* that are less than EXP_BACKOFF_MIN_MS apart.  Stated for two loop() calls
\* in the same millisecond, the device holding a token it created and that
\* has not expired.
C14_NoTightReconnectLoop ==
    [][~(/\ op = "loop" /\ InSeq("mqtt.connect", calls)
         /\ expMillis >= JwtLifetime /\ now < expMillis
         /\ op' = "loop" /\ InSeq("mqtt.connect", calls'))]_vars

\* C15: cleanup() leaves mqttClient, netClient and certList NULL; it
\* disconnects the protocol client and deletes each object at most once, and
\* only an object the pointer held; a cleanup() that finds all three NULL
\* (setup() never called, or cleanup() already called) makes no call and
\* changes no field.
C15_CleanupIdempotent ==
    [][op' = "cleanup" =>
        /\ mqttClient' = "NULL" /\ netClient' = "NULL" /\ certList' = "NULL"
        /\ Count("mqtt.disconnect", calls') <= 1
        /\ Count("delete.mqttClient", calls') = (IF mqttClient # "NULL" THEN 1 ELSE 0)
        /\ Count("delete.netClient", calls') = (IF netClient # "NULL" THEN 1 ELSE 0)
        /\ Count("delete.certList", calls') = (IF certList # "NULL" THEN 1 ELSE 0)
        /\ (mqttClient = "NULL" /\ netClient = "NULL" /\ certList = "NULL")
             => /\ calls' = <<>>
                /\ UNCHANGED <<owned, connected, autoReconnect, logConnect, useLts,
                               backoff_ms, backoff_until_millis, callbacks>>]_vars

\* C15 witness: cleanup() ran after setup() and an earlier cleanup(), and
\* found nothing to release.
C15_Witness ==
    op = "cleanup" /\ calls = <<>> /\ host = "LTS" /\ mqttClient = "NULL"

\* the methods that register a handler
Setters == {"setCommandCallback", "setConfigCallback", "setMessageCallback"}

\* C16: no method but the three setters changes commandCB, configCB or
\* messageCB, and each setter changes its own handler only.
C16_CallbacksFrame ==
    [][/\ op' \notin Setters => UNCHANGED callbacks
       /\ op' = "setCommandCallback" => UNCHANGED <<configCB, messageCB>>
       /\ op' = "setConfigCallback" => UNCHANGED <<commandCB, messageCB>>
       /\ op' = "setMessageCallback" => UNCHANGED <<commandCB, configCB>>]_vars

\* C16 witness: with all three handlers registered a message was dispatched
\* to the command handler, and the handlers are still registered.
C16_Witness ==
    /\ op = "onMessageReceived" /\ calls = <<"commandCB">>
    /\ commandCB = "fn" /\ configCB = "fn" /\ messageCB = "fn"
    /\ mqttClient # "NULL"

\* C17: connect() leaves autoReconnect true whatever auto_reconnect it is
\* given, so autoReconnect is true in every state where a failed connect()
\* has just set the backoff window; it stays true until disconnect() is
\* called, and a loop() that finds it true, the session disconnected, the
\* window over and the link up calls connect().
C17_ConnectForcesAutoReconnect ==
    [][/\ op' = "connect" => autoReconnect'
       /\ InSeq("set.backoff_until_millis", calls') => autoReconnect'
       /\ (autoReconnect /\ op' # "disconnect") => autoReconnect'
       /\ (op' = "loop" /\ autoReconnect /\ ~connected /\ network
             /\ now > backoff_until_millis)
             => InSeq("connect", calls')]_vars

\* C17 witness: connect(false) failed and set the backoff window, and
\* autoReconnect is true.
C17_Witness ==
    /\ op = "connect" /\ InSeq("auto_reconnect=false", calls)
    /\ InSeq("set.backoff_until_millis", calls)
    /\ backoff_ms >= EXP_BACKOFF_MIN_MS /\ autoReconnect

\* C18: when the commands-topic test passes and no command handler is
\* registered, or that test fails, the config-topic test passes and no config
\* handler is registered, onMessageReceived invokes no handler, whether or
\* not a generic handler is registered.
C18_MatchedWithoutHandlerDropped ==
    op = "onMessageReceived" =>
        /\ (IsPrefixOf(arrived, getCommandsTopic) /\ commandCB = "NULL")
             => calls = <<>>
        /\ (~IsPrefixOf(arrived, getCommandsTopic) /\ IsPrefixOf(arrived, getConfigTopic)
             /\ configCB = "NULL")
             => calls = <<>>

\* C18 witness: a message arrived on the commands topic with only the generic
\* handler registered, and nothing was invoked.
C18_Witness ==
    /\ op = "onMessageReceived" /\ arrived = getCommandsTopic
    /\ commandCB = "NULL" /\ messageCB # "NULL" /\ calls = <<>>

\* C19: with loop() called again and again, the clock advancing, the link up
\* and the broker accepting, a session that is set up, disconnected and has
\* autoReconnect true becomes connected, with backoff_ms back at 0.
C19_EventuallyReconnected ==
    (network /\ mqttClient # "NULL" /\ autoReconnect /\ ~connected)
        ~> (connected /\ backoff_ms = 0)

\* C19 witness: after failures that set a backoff window the link came up,
\* the window ended, and loop() reconnected.
C19_Witness ==
    /\ op = "loop" /\ InSeq("connect", calls) /\ network
    /\ connected /\ backoff_ms = 0
    /\ backoff_until_millis >= EXP_BACKOFF_MIN_MS /\ now > backoff_until_millis

\* C20: after a connect() that succeeded, no backoff window set by an
\* earlier failure is still in the future, so that a loss of the connection
\* is followed by a reconnect attempt on the next loop().
C20_NoStaleWindowAfterSuccess ==
    (RanConnect /\ connected /\ backoff_ms = 0) => ~(backoff_until_millis > now)

====
